---------------------------- MODULE Spec2Model ----------------------------
(***************************************************************************)
(* A model of jstr (src/src/lib.rs), a zero-copy recursive-descent scanner *)
(* for JSON-like text.                                                     *)
(*                                                                         *)
(* A text (&str) is a sequence of characters, each a one-character string. *)
(* Every character the model uses is one byte wide except EACUTE, which    *)
(* stands for a two-byte character: byte slicing `&s[1..]` is only defined *)
(* when byte 1 is a character boundary.                                    *)
(*                                                                         *)
(* A scanner's outcome is one of                                           *)
(*   [kind |-> "Ok", val |-> v, rest |-> r]   Ok((v, r))                   *)
(*   [kind |-> "Err", err |-> ...]            Err(Error::...)              *)
(*   [kind |-> "Panic"]                       the thread panics            *)
(***************************************************************************)
EXTENDS Naturals, Sequences, FiniteSets

VARIABLES
    s,      \* the text handed to the scanner
    fn,     \* the scanner that was called on s ("none" before the call)
    res     \* its outcome (NoResult before the call)

vars == <<s, fn, res>>

---------------------------------------------------------------------------
(* Characters *)

QUOTE     == "\""
BACKSLASH == "\\"
NEWLINE   == "\n"
EACUTE    == "e-acute"

Digits == {"0", "1", "2", "3", "4", "5", "6", "7", "8", "9"}

\* char::is_digit(10)
is_digit(c) == c \in Digits

\* The number of bytes of c in UTF-8.
len_utf8(c) == IF c = EACUTE THEN 2 ELSE 1

UpperCase == <<"A", "B", "C", "D", "E", "F", "G", "H", "I", "J", "K", "L", "M",
               "N", "O", "P", "Q", "R", "S", "T", "U", "V", "W", "X", "Y", "Z">>
LowerCase == <<"a", "b", "c", "d", "e", "f", "g", "h", "i", "j", "k", "l", "m",
               "n", "o", "p", "q", "r", "s", "t", "u", "v", "w", "x", "y", "z">>

\* char::to_ascii_lowercase
to_ascii_lowercase(c) ==
    IF \E k \in 1..26 : UpperCase[k] = c
    THEN LowerCase[CHOOSE k \in 1..26 : UpperCase[k] = c]
    ELSE c

\* s[i..] for a 0-based character offset i (all offsets used fall on
\* character boundaries).
From(t, i) == SubSeq(t, i + 1, Len(t))

\* s[..i]
UpTo(t, i) == SubSeq(t, 1, i)

TRUE_LIT  == <<"t", "r", "u", "e">>
FALSE_LIT == <<"f", "a", "l", "s", "e">>

\* str::starts_with
starts_with(t, p) == Len(t) >= Len(p) /\ SubSeq(t, 1, Len(p)) = p

---------------------------------------------------------------------------
(* Outcomes *)

Ok(v, r)      == [kind |-> "Ok", val |-> v, rest |-> r]
EarlyEnd      == [kind |-> "Err", err |-> "EarlyEnd"]
NoEnd         == [kind |-> "Err", err |-> "NoEnd"]
BadChar(c, i) == [kind |-> "Err", err |-> "BadChar", c |-> c, i |-> i]
Panic         == [kind |-> "Panic"]
NoResult      == [kind |-> "None"]

\* Value and Entry
Boolean(t)  == [kind |-> "Boolean", text |-> t]
String(t)   == [kind |-> "String", text |-> t]
Number(t)   == [kind |-> "Number", text |-> t]
Object(es)  == [kind |-> "Object", items |-> es]
Array(vs)   == [kind |-> "Array", items |-> vs]
Entry(k, v) == [key |-> k, value |-> v]

---------------------------------------------------------------------------
(* Scanners *)

Separators == {" ", NEWLINE, ",", ":"}

RECURSIVE skip_whitespace(_)
skip_whitespace(t) ==
    IF t = <<>> THEN <<>>
    ELSE IF Head(t) \in Separators THEN skip_whitespace(Tail(t))
    ELSE t

\* get_str_loop with a backslash treated as an ordinary character.
RECURSIVE get_str_loop_no_escape(_, _, _)
get_str_loop_no_escape(t, i, esc) ==
    IF i >= Len(t) THEN [valid |-> FALSE, index |-> 0]
    ELSE IF t[i + 1] = QUOTE THEN [valid |-> TRUE, index |-> i]
    ELSE get_str_loop_no_escape(t, i + 1, FALSE)

\* The loop of get_str over s[1..].char_indices(): t is s[1..], i the
\* 0-based offset of the next character, esc the escape flag.  Yields the
\* loop's final (valid, index).
RECURSIVE get_str_loop(_, _, _)
get_str_loop(t, i, esc) ==
    IF i >= Len(t) THEN [valid |-> FALSE, index |-> 0]
    ELSE IF esc THEN get_str_loop(t, i + 1, FALSE)
    ELSE IF t[i + 1] = BACKSLASH THEN get_str_loop(t, i + 1, TRUE)
    ELSE IF t[i + 1] = QUOTE THEN [valid |-> TRUE, index |-> i]
    ELSE get_str_loop(t, i + 1, FALSE)

get_str(t) ==
    IF t = <<>> THEN EarlyEnd
    ELSE IF Head(t) # QUOTE THEN BadChar(Head(t), 0)
    ELSE LET l == get_str_loop(From(t, 1), 0, FALSE)
         IN  IF l.valid
             THEN Ok(SubSeq(t, 2, l.index + 1), From(t, l.index + 2))
             ELSE NoEnd

\* get_num_loop with the end of the text accepted as the end of the digits.
RECURSIVE get_num_loop_ends_at_eof(_, _)
get_num_loop_ends_at_eof(t, i) ==
    IF i >= Len(t) - 1 THEN Ok(t, <<>>)
    ELSE IF ~is_digit(t[i + 2]) THEN Ok(UpTo(t, i + 1), From(t, i + 1))
    ELSE get_num_loop_ends_at_eof(t, i + 1)

\* The loop of get_num over s[1..].char_indices(): i is the 0-based offset
\* in s[1..] of the next character.
RECURSIVE get_num_loop(_, _)
get_num_loop(t, i) ==
    IF i >= Len(t) - 1 THEN NoEnd
    ELSE IF ~is_digit(t[i + 2]) THEN Ok(UpTo(t, i + 1), From(t, i + 1))
    ELSE get_num_loop(t, i + 1)

get_num(t) ==
    IF t = <<>> THEN EarlyEnd
    ELSE IF ~(is_digit(Head(t)) \/ Head(t) = "-") THEN BadChar(Head(t), 0)
    ELSE get_num_loop(t, 0)

get_boolean(t) ==
    IF starts_with(t, TRUE_LIT) THEN Ok(UpTo(t, 4), From(t, 4))
    ELSE IF starts_with(t, FALSE_LIT)
    THEN Ok(UpTo(t, 5), From(t, 5))
    ELSE IF t = <<>> THEN Panic
    ELSE BadChar(Head(t), 0)

get_key(t) == get_str(t)

RECURSIVE get_value(_), get_entry(_), get_object(_), get_array(_)
RECURSIVE get_object_loop(_, _), get_array_loop(_, _)

\* get_object_loop with the separators after the closing brace skipped too.
RECURSIVE get_object_loop_eats_separators(_, _)
get_object_loop_eats_separators(cur_s, object) ==
    IF cur_s = <<>> THEN EarlyEnd
    ELSE IF Head(cur_s) # "}"
    THEN LET e == get_entry(skip_whitespace(cur_s))
         IN  IF e.kind # "Ok" THEN e
             ELSE get_object_loop_eats_separators(e.rest, Append(object, e.val))
    ELSE LET c == skip_whitespace(cur_s)
         IN  IF c = <<>> THEN Panic
             ELSE Ok(object, skip_whitespace(From(c, 1)))

\* The while loop of get_object and what follows it: cur_s and object are
\* the loop's variables.
get_object_loop(cur_s, object) ==
    IF cur_s = <<>> THEN EarlyEnd
    ELSE IF Head(cur_s) # "}"
    THEN LET e == get_entry(skip_whitespace(cur_s))
         IN  IF e.kind # "Ok" THEN e
             ELSE get_object_loop(e.rest, Append(object, e.val))
    ELSE LET c == skip_whitespace(cur_s)
         IN  IF c = <<>> THEN Panic ELSE Ok(object, From(c, 1))

get_object(t) ==
    IF t = <<>> \/ len_utf8(Head(t)) # 1 THEN Panic
    ELSE get_object_loop(From(t, 1), <<>>)

\* The while loop of get_array and what follows it.
get_array_loop(cur_s, array) ==
    IF cur_s = <<>> THEN EarlyEnd
    ELSE IF Head(cur_s) # "]"
    THEN LET v == get_value(skip_whitespace(cur_s))
         IN  IF v.kind # "Ok" THEN v
             ELSE get_array_loop(v.rest, Append(array, v.val))
    ELSE LET c == skip_whitespace(cur_s)
         IN  IF c = <<>> THEN Panic ELSE Ok(array, From(c, 1))

get_array(t) ==
    IF t = <<>> \/ len_utf8(Head(t)) # 1 THEN Panic
    ELSE get_array_loop(From(t, 1), <<>>)

get_value(t) ==
    IF t = <<>> THEN EarlyEnd
    ELSE LET c == Head(t) IN
    IF c = QUOTE
    THEN LET r == get_str(t)
         IN  IF r.kind = "Ok" THEN Ok(String(r.val), r.rest) ELSE r
    ELSE IF is_digit(c) \/ c = "-"
    THEN LET r == get_num(t)
         IN  IF r.kind = "Ok" THEN Ok(Number(r.val), r.rest) ELSE r
    ELSE IF c = "{"
    THEN LET r == get_object(t)
         IN  IF r.kind = "Ok" THEN Ok(Object(r.val), r.rest) ELSE r
    ELSE IF c = "["
    THEN LET r == get_array(t)
         IN  IF r.kind = "Ok" THEN Ok(Array(r.val), r.rest) ELSE r
    ELSE IF to_ascii_lowercase(c) \in {"t", "f"}
    THEN LET r == get_boolean(t)
         IN  IF r.kind = "Ok" THEN Ok(Boolean(r.val), r.rest) ELSE r
    ELSE BadChar(c, 0)

\* get_entry with the separators after the value skipped too.
get_entry_eats_separators(t) ==
    LET k == get_key(t) IN
    IF k.kind # "Ok" THEN k
    ELSE LET v == get_value(skip_whitespace(k.rest))
         IN  IF v.kind # "Ok" THEN v
             ELSE Ok(Entry(k.val, v.val), skip_whitespace(v.rest))

get_entry(t) ==
    LET k == get_key(t) IN
    IF k.kind # "Ok" THEN k
    ELSE LET v == get_value(skip_whitespace(k.rest))
         IN  IF v.kind # "Ok" THEN v
             ELSE Ok(Entry(k.val, v.val), v.rest)

deserialize(t) == get_object(skip_whitespace(t))

---------------------------------------------------------------------------
(* Input texts.  A text is built from at most n fragments of a fragment    *)
(* set; a fragment is one character or a short run of characters.          *)

RECURSIVE Flatten(_)
Flatten(fs) == IF fs = <<>> THEN <<>> ELSE Head(fs) \o Flatten(Tail(fs))

Texts(F, n) == {Flatten(fs) : fs \in UNION {[1..k -> F] : k \in 0..n}}

STR_A == <<QUOTE, "a", QUOTE>>

MaxNumLen     == 4
MaxStrLen     == 7
MaxEntryFrags == 4
MaxDocFrags   == 5
MaxTailFrags  == 5
MaxScanFrags  == 3

NumFrags   == {<<"-">>, <<"0">>, <<"7">>, <<",">>, <<"x">>}
StrFrags   == {<<QUOTE>>, <<BACKSLASH>>, <<"a">>}
EntryFrags == {<<QUOTE, "k", QUOTE>>, <<QUOTE>>, <<BACKSLASH>>, <<":", " ">>,
               <<",">>, <<"1">>, TRUE_LIT, <<"[">>, <<"]">>, <<"{">>, <<"}">>}
DocFrags   == {<<"{">>, <<"}">>, <<"[">>, <<"]">>, STR_A, <<QUOTE>>, <<"1">>,
               <<"-">>, <<",">>, <<" ">>, TRUE_LIT}
TailFrags  == {<<"{">>, <<"}">>, <<"[">>, <<"]">>, STR_A, <<"1">>, <<",">>,
               TRUE_LIT}
ScanFrags  == {<<"{">>, <<"}">>, <<"[">>, <<"]">>, <<QUOTE>>, <<BACKSLASH>>,
               <<"1">>, <<"-">>, <<" ">>, TRUE_LIT, FALSE_LIT, <<"T">>,
               <<EACUTE>>}

---------------------------------------------------------------------------
(* The calls.  Each applies one function of the crate to the text s.       *)

Call(name, outcome) ==
    /\ fn = "none"
    /\ fn' = name
    /\ res' = outcome
    /\ UNCHANGED s

Deserialize == Call("deserialize", deserialize(s))
GetStr      == Call("get_str", get_str(s))
GetNum      == Call("get_num", get_num(s))
GetValue    == Call("get_value", get_value(s))
GetEntry    == Call("get_entry", get_entry(s))
GetObject   == Call("get_object", get_object(s))

\* get_boolean and get_array are only called by get_value, on a text whose
\* first character it has inspected.
GetBoolean ==
    /\ s # <<>>
    /\ to_ascii_lowercase(Head(s)) \in {"t", "f"}
    /\ Call("get_boolean", get_boolean(s))

GetArray ==
    /\ s # <<>>
    /\ Head(s) = "["
    /\ Call("get_array", get_array(s))

Start(T) == s \in T /\ fn = "none" /\ res = NoResult

\* deserialize on document texts
Init == Start(Texts(DocFrags, MaxDocFrags))
Next == Deserialize
Spec == Init /\ [][Next]_vars

\* deserialize on texts of whole tokens
InitTail == Start(Texts(TailFrags, MaxTailFrags))
NextTail == Deserialize
SpecTail == InitTail /\ [][NextTail]_vars

\* get_num on number texts
InitNum == Start(Texts(NumFrags, MaxNumLen))
NextNum == GetNum
SpecNum == InitNum /\ [][NextNum]_vars

\* get_str on string texts
InitStr == Start(Texts(StrFrags, MaxStrLen))
NextStr == GetStr
SpecStr == InitStr /\ [][NextStr]_vars

\* get_entry on entry texts
InitEntry == Start(Texts(EntryFrags, MaxEntryFrags))
NextEntry == GetEntry
SpecEntry == InitEntry /\ [][NextEntry]_vars

\* every scanner on mixed texts
InitScan == Start(Texts(ScanFrags, MaxScanFrags))
NextScan ==
    \/ Deserialize
    \/ GetStr
    \/ GetNum
    \/ GetBoolean
    \/ GetValue
    \/ GetEntry
    \/ GetObject
    \/ GetArray
SpecScan == InitScan /\ [][NextScan]_vars

---------------------------------------------------------------------------
(* Notions the properties are stated with *)

\* The number of consecutive backslashes of t that end just before
\* position i (1-based), not reaching below position lo.
RECURSIVE BackslashRun(_, _, _)
BackslashRun(t, i, lo) ==
    IF i - 1 >= lo /\ t[i - 1] = BACKSLASH
    THEN 1 + BackslashRun(t, i - 1, lo)
    ELSE 0

Even(n) == n % 2 = 0
Odd(n)  == n % 2 = 1

\* k can stand between two delimiting quotes: every quote in it is escaped
\* and it does not end in an unpaired backslash.
IsStringContent(k) ==
    /\ \A i \in 1..Len(k) : k[i] = QUOTE => Odd(BackslashRun(k, i, 1))
    /\ Even(BackslashRun(k, Len(k) + 1, 1))

\* -?[0-9]+
MatchesNumber(n) ==
    LET d == IF n # <<>> /\ Head(n) = "-" THEN Tail(n) ELSE n
    IN  d # <<>> /\ \A i \in 1..Len(d) : is_digit(d[i])

\* r is a suffix of t that is strictly shorter than t.
StrictSuffix(r, t) == Len(r) < Len(t) /\ r = From(t, Len(t) - Len(r))

AllSeparators(t) == \A i \in 1..Len(t) : t[i] \in Separators

Last(q) == q[Len(q)]

---------------------------------------------------------------------------
(* C2: whenever get_num returns Ok((num, rest)), num matches -?[0-9]+, the *)
(* input is num ++ rest, and rest begins at the first non-digit character  *)
(* of the input after the optional sign.                                   *)
C2_NumberPattern ==
    (fn = "get_num" /\ res.kind = "Ok") =>
        LET sign == IF Head(s) = "-" THEN 1 ELSE 0
        IN  /\ MatchesNumber(res.val)
            /\ s = res.val \o res.rest
            /\ res.rest # <<>>
            /\ ~is_digit(Head(res.rest))
            /\ \A i \in (sign + 1)..Len(res.val) : is_digit(s[i])

---------------------------------------------------------------------------
(* C3: whenever get_str returns Ok((content, rest)), the input is          *)
(* quote ++ content ++ quote ++ rest, and the closing quote is the first   *)
(* quote after the opening one that is preceded by an even-length run of   *)
(* backslashes: every quote inside content is preceded by an odd run, and  *)
(* content does not end in an odd run.                                     *)
C3_StringSlices ==
    (fn = "get_str" /\ res.kind = "Ok") =>
        LET close == Len(res.val) + 2
        IN  /\ s = <<QUOTE>> \o res.val \o <<QUOTE>> \o res.rest
            /\ Even(BackslashRun(s, close, 2))
            /\ \A i \in 2..(close - 1) :
                   s[i] = QUOTE => Odd(BackslashRun(s, i, 2))

\* get_str has accepted a text whose content holds an escaped quote and an
\* escaped backslash, with text left over after the closing quote.
C3_Witness ==
    /\ fn = "get_str"
    /\ res.kind = "Ok"
    /\ res.val = <<BACKSLASH, QUOTE, BACKSLASH, BACKSLASH>>
    /\ res.rest # <<>>

---------------------------------------------------------------------------
(* C4: deserialize applied to the empty input returns Err(EarlyEnd).       *)
C4_EmptyInputEarlyEnd ==
    (fn = "deserialize" /\ s = <<>>) => res = EarlyEnd

---------------------------------------------------------------------------
\* t is an object text that deserialize accepts whole.
AcceptedObjectText(t) ==
    LET r == deserialize(t)
        u == skip_whitespace(t)
    IN  u # <<>> /\ Head(u) = "{" /\ r.kind = "Ok" /\ r.rest = <<>>

(* C5, as stated: for every object text that deserialize accepts (with an  *)
(* empty remainder), the text without its final closing brace makes        *)
(* deserialize return Err(EarlyEnd), whatever its last value is.           *)
C5_UnterminatedIsEarlyEnd ==
    (fn = "deserialize" /\ AcceptedObjectText(s \o <<"}">>)) =>
        res = EarlyEnd

(* C5, amended: for every object text that deserialize accepts (with an    *)
(* empty remainder), the text without its final closing brace makes        *)
(* deserialize return Err(EarlyEnd) when the object has no entry or its    *)
(* last value is a string, a boolean, an object or an array, and           *)
(* Err(NoEnd) when its last value is a number.                             *)
C5_UnterminatedObject ==
    LET full == deserialize(s \o <<"}">>)
    IN  (fn = "deserialize" /\ AcceptedObjectText(s \o <<"}">>)) =>
            res = IF full.val # <<>> /\ Last(full.val).value.kind = "Number"
                  THEN NoEnd
                  ELSE EarlyEnd

\* deserialize has been applied to an accepted object text without its
\* final brace, whose only value is a number.
C5_Witness ==
    LET full == deserialize(s \o <<"}">>)
    IN  /\ fn = "deserialize"
        /\ AcceptedObjectText(s \o <<"}">>)
        /\ Len(full.val) = 1
        /\ full.val[1].value.kind = "Number"
        /\ res = NoEnd

---------------------------------------------------------------------------
(* C7: when deserialize succeeds its remainder is the suffix of the input  *)
(* that follows the top-level closing brace, and that suffix is never      *)
(* inspected: if deserialize(P) = Ok((tree, "")) then                      *)
(* deserialize(P ++ X) = Ok((tree, X)) for every text X.                   *)
C7_TrailingTextUntouched ==
    fn = "deserialize" =>
        /\ \A n \in 0..Len(s) :
               LET p == deserialize(UpTo(s, n))
               IN  (p.kind = "Ok" /\ p.rest = <<>>) =>
                       res = Ok(p.val, From(s, n))
        /\ res.kind = "Ok" =>
               /\ StrictSuffix(res.rest, s)
               /\ s[Len(s) - Len(res.rest)] = "}"
               /\ deserialize(UpTo(s, Len(s) - Len(res.rest)))
                      = Ok(res.val, <<>>)

\* deserialize has accepted a text made of an object with an entry,
\* followed by text that is not a document.
C7_Witness ==
    /\ fn = "deserialize"
    /\ res.kind = "Ok"
    /\ Head(s) = "{"
    /\ Len(res.val) = 1
    /\ res.rest = <<"[">>

---------------------------------------------------------------------------
(* C8: deserialize returns Ok only for inputs whose first non-separator    *)
(* character is an opening brace; every input whose first non-separator    *)
(* character is anything else is rejected with an Err.                     *)
C8_TopLevelMustBeObject ==
    fn = "deserialize" =>
        LET t == skip_whitespace(s)
        IN  /\ res.kind = "Ok" => (t # <<>> /\ Head(t) = "{")
            /\ (t # <<>> /\ Head(t) # "{") => res.kind = "Err"

---------------------------------------------------------------------------
(* C9: for every input quote ++ k ++ quote ++ S ++ V ++ R, where k is the  *)
(* content of a string, S is a possibly empty run of separators and        *)
(* get_value accepts V ++ R with value v and remainder R, get_entry        *)
(* returns Ok((Entry{key: k, value: v}, R)): nothing after the value is    *)
(* consumed.                                                               *)
C9_EntryScan ==
    fn = "get_entry" =>
        \A i \in 2..Len(s) : \A j \in i..Len(s) :
            LET k == SubSeq(s, 2, i - 1)
                v == get_value(From(s, j))
            IN  ( /\ Head(s) = QUOTE
                  /\ s[i] = QUOTE
                  /\ IsStringContent(k)
                  /\ AllSeparators(SubSeq(s, i + 1, j))
                  /\ v.kind = "Ok" )
                => res = Ok(Entry(k, v.val), v.rest)

\* get_entry has scanned a key, a run of two separators and a number, and
\* has left the separator after the number in the remainder.
C9_Witness ==
    /\ fn = "get_entry"
    /\ s = <<QUOTE, "k", QUOTE, ":", " ", "1", ",">>
    /\ res = Ok(Entry(<<"k">>, Number(<<"1">>)), <<",">>)

---------------------------------------------------------------------------
(* Object texts, read from the grammar: tokens are braces, brackets,       *)
(* strings, integer numbers and true/false, with any run of separators     *)
(* between two tokens.                                                     *)

Min(S) == CHOOSE x \in S : \A y \in S : x <= y

\* The position of the quote that closes the string opened at position i
\* of t, or 0.
ClosingQuote(t, i) ==
    LET C == {j \in (i + 1)..Len(t) :
                 t[j] = QUOTE /\ Even(BackslashRun(t, j, i + 1))}
    IN  IF C = {} THEN 0 ELSE Min(C)

\* The position after the digits of t that start at position i.
RECURSIVE DigitsEnd(_, _)
DigitsEnd(t, i) ==
    IF i <= Len(t) /\ is_digit(t[i]) THEN DigitsEnd(t, i + 1) ELSE i

Token(type, text, at) == [type |-> type, text |-> text, at |-> at]

\* The tokens of t from position i on, after the tokens acc.
RECURSIVE Lex(_, _, _)
Lex(t, i, acc) ==
    IF i > Len(t) THEN [ok |-> TRUE, toks |-> acc]
    ELSE LET c == t[i] IN
    IF c \in Separators THEN Lex(t, i + 1, acc)
    ELSE IF c \in {"{", "}", "[", "]"}
    THEN Lex(t, i + 1, Append(acc, Token(c, <<c>>, i)))
    ELSE IF c = QUOTE
    THEN LET j == ClosingQuote(t, i)
         IN  IF j = 0 THEN [ok |-> FALSE, toks |-> acc]
             ELSE Lex(t, j + 1,
                      Append(acc, Token("String", SubSeq(t, i + 1, j - 1), i)))
    ELSE IF is_digit(c) \/ c = "-"
    THEN LET d == IF c = "-" THEN i + 1 ELSE i
             e == DigitsEnd(t, d)
         IN  IF e = d THEN [ok |-> FALSE, toks |-> acc]
             ELSE Lex(t, e, Append(acc, Token("Number", SubSeq(t, i, e - 1), i)))
    ELSE IF starts_with(From(t, i - 1), TRUE_LIT)
    THEN Lex(t, i + 4, Append(acc, Token("Boolean", TRUE_LIT, i)))
    ELSE IF starts_with(From(t, i - 1), FALSE_LIT)
    THEN Lex(t, i + 5, Append(acc, Token("Boolean", FALSE_LIT, i)))
    ELSE [ok |-> FALSE, toks |-> acc]

Parsed(v, n) == [ok |-> TRUE, val |-> v, next |-> n]
NotParsed    == [ok |-> FALSE]

\* The value, the entries of an object and the elements of an array that
\* start at token p of toks.
RECURSIVE TokValue(_, _), TokEntries(_, _, _), TokElements(_, _, _)
TokValue(toks, p) ==
    IF p > Len(toks) THEN NotParsed
    ELSE LET k == toks[p] IN
    IF k.type = "String" THEN Parsed(String(k.text), p + 1)
    ELSE IF k.type = "Number" THEN Parsed(Number(k.text), p + 1)
    ELSE IF k.type = "Boolean" THEN Parsed(Boolean(k.text), p + 1)
    ELSE IF k.type = "{"
    THEN LET o == TokEntries(toks, p + 1, <<>>)
         IN  IF o.ok THEN Parsed(Object(o.val), o.next) ELSE NotParsed
    ELSE IF k.type = "["
    THEN LET a == TokElements(toks, p + 1, <<>>)
         IN  IF a.ok THEN Parsed(Array(a.val), a.next) ELSE NotParsed
    ELSE NotParsed

TokEntries(toks, p, acc) ==
    IF p > Len(toks) THEN NotParsed
    ELSE IF toks[p].type = "}" THEN Parsed(acc, p + 1)
    ELSE IF toks[p].type # "String" THEN NotParsed
    ELSE LET v == TokValue(toks, p + 1)
         IN  IF v.ok
             THEN TokEntries(toks, v.next,
                             Append(acc, Entry(toks[p].text, v.val)))
             ELSE NotParsed

TokElements(toks, p, acc) ==
    IF p > Len(toks) THEN NotParsed
    ELSE IF toks[p].type = "]" THEN Parsed(acc, p + 1)
    ELSE LET v == TokValue(toks, p)
         IN  IF v.ok THEN TokElements(toks, v.next, Append(acc, v.val))
             ELSE NotParsed

\* The key/value pairs of t when t is an object text: one object, from
\* its opening to its closing brace, and nothing else but separators.
ObjectText(t) ==
    LET lx == Lex(t, 1, <<>>) IN
    IF lx.ok /\ lx.toks # <<>> /\ lx.toks[1].type = "{"
    THEN LET o == TokEntries(lx.toks, 2, <<>>)
         IN  IF o.ok /\ o.next = Len(lx.toks) + 1 THEN o ELSE NotParsed
    ELSE NotParsed

\* t with the character c inserted before position p.
Insert(t, p, c) == SubSeq(t, 1, p - 1) \o <<c>> \o SubSeq(t, p, Len(t))

---------------------------------------------------------------------------
(* C1: for every object text, with separators anywhere between its        *)
(* tokens, deserialize returns Ok and the Object has as many entries as    *)
(* the text has top-level key/value pairs, entry i holding the i-th key    *)
(* and the i-th value.                                                     *)
C1_ShapeOfObjectText ==
    LET o == ObjectText(s)
    IN  (fn = "deserialize" /\ o.ok) =>
            /\ res.kind = "Ok"
            /\ Len(res.val) = Len(o.val)
            /\ \A i \in 1..Len(o.val) : res.val[i] = o.val[i]

\* No closing brace or bracket of t directly follows a separator.
NoSeparatorBeforeClosing(t) ==
    \A i \in 2..Len(t) : t[i] \in {"}", "]"} => t[i - 1] \notin Separators

\* The property of C1 for the object texts in which no separator stands
\* directly before a closing brace or bracket: an invariant of Spec.
ShapeOfObjectTextWithoutSeparatorBeforeClosing ==
    LET o == ObjectText(s)
    IN  (fn = "deserialize" /\ o.ok /\ NoSeparatorBeforeClosing(s)) =>
            /\ res.kind = "Ok"
            /\ Len(res.val) = Len(o.val)
            /\ \A i \in 1..Len(o.val) : res.val[i] = o.val[i]

---------------------------------------------------------------------------
(* C6: if deserialize accepts an object text, the text with a separator    *)
(* inserted between two adjacent tokens, the closing brace or bracket      *)
(* included, is accepted too and yields an equal tree.                     *)
C6_SeparatorsInsignificant ==
    (fn = "deserialize" /\ res.kind = "Ok") =>
        LET lx == Lex(UpTo(s, Len(s) - Len(res.rest)), 1, <<>>)
        IN  (lx.ok /\ lx.toks[1].type = "{") =>
                \A k \in 2..Len(lx.toks) : \A c \in Separators :
                    deserialize(Insert(s, lx.toks[k].at, c))
                        = Ok(res.val, res.rest)

\* The property of C6 for the separators inserted before a token other
\* than a closing brace or bracket: an invariant of Spec.
SeparatorsInsignificantExceptBeforeClosing ==
    (fn = "deserialize" /\ res.kind = "Ok") =>
        LET lx == Lex(UpTo(s, Len(s) - Len(res.rest)), 1, <<>>)
        IN  (lx.ok /\ lx.toks[1].type = "{") =>
                \A k \in 2..Len(lx.toks) : \A c \in Separators :
                    lx.toks[k].type \notin {"}", "]"} =>
                        deserialize(Insert(s, lx.toks[k].at, c))
                            = Ok(res.val, res.rest)

---------------------------------------------------------------------------
\* Whichever scanner was called, an Ok outcome leaves a strictly shorter
\* suffix of the input.
ScannersConsume ==
    (fn # "none" /\ res.kind = "Ok") => StrictSuffix(res.rest, s)

(* C10: every scanner that returns Ok returns a remainder that is a        *)
(* strictly shorter suffix of its input, and deserialize ends with Ok or   *)
(* with an Err on every input.                                             *)
C10_ProgressAndTermination ==
    /\ ScannersConsume
    /\ fn = "deserialize" => res.kind \in {"Ok", "Err"}

============================================================================
